---- MODULE Spec2Model ----
(***************************************************************************)
(* Model of the `words` crate: the pattern parser (Word::from_str), the    *)
(* constraint sets (Excluded / Included), the matcher                      *)
(* (WordsResult::is_word_possible), the report (Display for WordsResult)   *)
(* and the filtering pass of main.                                         *)
(*                                                                         *)
(* A char is a one-character string, a &str is a tuple of chars.           *)
(***************************************************************************)
EXTENDS Integers, Sequences, FiniteSets, TLC

VARIABLES
    wordArg,        \* Opt: the raw <word> argument
    exclArg,        \* Opt: the raw --excluded argument, or None
    inclArg,        \* Opt: the raw --included argument, or None
    file,           \* what read_lines("src/words.txt") yields
    pc,             \* position of main
    argError,       \* the WordError that from_args reported
    chosen_word,    \* WordsResult.chosen_word
    possible_words, \* WordsResult.possible_words
    excluded,       \* main's `excluded`
    included,       \* main's `included`
    lineNo,         \* number of lines the `for line in lines` loop has taken
    target,         \* is_word_possible's `target` argument (last call)
    target_word,    \* is_word_possible's `target_word`
    idx,            \* position of the zip iterator, 1-based
    ret,            \* return value of the last is_word_possible call
    panic,          \* payload of the panic raised by unwrap()
    output          \* what println!("{}", result) wrote

vars == <<wordArg, exclArg, inclArg, file, pc, argError, chosen_word,
          possible_words, excluded, included, lineNo, target, target_word,
          idx, ret, panic, output>>

----------------------------------------------------------------------------
(* Bounds of the model *)

\* Largest number of lines of src/words.txt in the multi-line specification.
MaxLines == 2

----------------------------------------------------------------------------
(* Characters *)

Lower == <<"a","b","c","d","e","f","g","h","i","j","k","l","m",
           "n","o","p","q","r","s","t","u","v","w","x","y","z">>
Upper == <<"A","B","C","D","E","F","G","H","I","J","K","L","M",
           "N","O","P","Q","R","S","T","U","V","W","X","Y","Z">>

Range(f) == {f[k] : k \in DOMAIN f}

\* Alphabetic characters outside ASCII; each takes two bytes in UTF-8.
NonAsciiAlphabetic == {"é", "É"}

\* char::len_utf8, which str::len sums up
len_utf8(c) == IF c \in NonAsciiAlphabetic THEN 2 ELSE 1

\* char::is_alphabetic
is_alphabetic(c) == c \in Range(Lower) \cup Range(Upper) \cup NonAsciiAlphabetic

\* char::to_ascii_uppercase: only a..z change
to_ascii_uppercase(c) ==
    IF c \in Range(Lower)
    THEN Upper[CHOOSE k \in DOMAIN Lower : Lower[k] = c]
    ELSE c

RECURSIVE str_len(_)
\* str::len: the length of a &str in bytes
str_len(s) == IF s = <<>> THEN 0 ELSE len_utf8(Head(s)) + str_len(Tail(s))

\* str::chars().count(): the length of a &str in characters
chars_count(s) == Len(s)

----------------------------------------------------------------------------
(* Values *)

None == <<"None">>
Some(v) == <<"Some", v>>
Ok(v) == <<"Ok", v>>
Err(e) == <<"Err", e>>
IsOk(r) == r[1] = "Ok"

\* enum WordError
InvalidWordLength(n) == <<"InvalidWordLength", n>>
InvalidCharValue(c) == <<"InvalidCharValue", c>>

\* enum Character
Normal(c) == <<"Normal", c>>
Wildcard == <<"Wildcard">>
IsNormal(ch) == ch[1] = "Normal"

\* the length both sides must have
WordLen == 5

\* impl TryFrom<char> for Character
try_from(value) ==
    IF value \in {"*", "_", "?"} THEN Ok(Wildcard)
    ELSE IF is_alphabetic(value) THEN Ok(Normal(to_ascii_uppercase(value)))
    ELSE Err(InvalidCharValue(value))

RECURSIVE collect_characters(_, _)
\* the loop of Word::from_str: the first failing character ends it
collect_characters(s, characters) ==
    IF s = <<>> THEN Ok(characters)
    ELSE LET r == try_from(Head(s)) IN
         IF IsOk(r) THEN collect_characters(Tail(s), Append(characters, r[2]))
         ELSE r

\* impl FromStr for Word
Word_from_str(s) ==
    IF str_len(s) # WordLen THEN Err(InvalidWordLength(str_len(s)))
    ELSE collect_characters(s, <<>>)

\* impl FromStr for Excluded
Excluded_from_str(s) == [k \in 1..Len(s) |-> to_ascii_uppercase(s[k])]

\* impl FromStr for Included
Included_from_str(s) == [k \in 1..Len(s) |-> to_ascii_uppercase(s[k])]

\* Vec::contains
contains(v, c) == \E k \in DOMAIN v : v[k] = c

\* a push that puts the new element first
push_front(v, w) == <<w>> \o v

\* Vec::push
push(v, w) == Append(v, w)

Min(a, b) == IF a < b THEN a ELSE b

\* number of pairs chosen_word.0.iter().zip(target_word.0.iter()) yields
zip_len(a, b) == Min(Len(a), Len(b))

----------------------------------------------------------------------------
(* The matcher: the body of the zip loop of is_word_possible for one pair. *)
(* "accept": push and return true; "reject": return false;                 *)
(* "continue": go on with the next pair.                                   *)

\* the `match target_char` of the loop: a Wildcard of the candidate reads ' '
target_character(target_char) ==
    IF IsNormal(target_char) THEN target_char[2] ELSE " "

\* compare without its last check (self_char != target_char)
compare_no_equality(self_char, target_char, excl, incl) ==
    IF ~IsNormal(self_char) THEN "continue"
    ELSE IF contains(incl, target_character(target_char)) THEN "accept"
    ELSE IF contains(excl, self_char[2]) THEN "reject"
    ELSE "continue"

\* compare without the excluded check
compare_no_exclusion(self_char, target_char, excl, incl) ==
    IF ~IsNormal(self_char) THEN "continue"
    ELSE IF contains(incl, target_character(target_char)) THEN "accept"
    ELSE IF self_char # target_char THEN "reject"
    ELSE "continue"

\* compare with the excluded check moved before the included check
compare_exclusion_first(self_char, target_char, excl, incl) ==
    IF ~IsNormal(self_char) THEN "continue"
    ELSE IF contains(excl, self_char[2]) THEN "reject"
    ELSE IF contains(incl, target_character(target_char)) THEN "accept"
    ELSE IF self_char # target_char THEN "reject"
    ELSE "continue"

\* compare with the equality check moved before the included check
compare_equality_first(self_char, target_char, excl, incl) ==
    IF ~IsNormal(self_char) THEN "continue"
    ELSE IF self_char # target_char THEN "reject"
    ELSE IF contains(incl, target_character(target_char)) THEN "accept"
    ELSE IF contains(excl, self_char[2]) THEN "reject"
    ELSE "continue"

compare(self_char, target_char, excl, incl) ==
    IF ~IsNormal(self_char) THEN "continue"
    ELSE IF contains(incl, target_character(target_char)) THEN "accept"
    ELSE IF contains(excl, self_char[2]) THEN "reject"
    ELSE IF self_char # target_char THEN "reject"
    ELSE "continue"

\* the closure of Display for WordsResult that maps a Word to its chars
str_word(word) ==
    [k \in 1..Len(word) |-> IF IsNormal(word[k]) THEN word[k][2] ELSE " "]

\* impl Display for WordsResult: the header, then one numbered entry a word
fmt(words) ==
    <<"List of possible matching words:">>
        \o [k \in 1..Len(words) |-> <<k, str_word(words[k])>>]

----------------------------------------------------------------------------
(* main *)

\* Opt::from_args(): structopt parses <word> with Word::from_str and the two
\* options with Excluded::from_str / Included::from_str; an invalid <word>
\* ends the run. Then WordsResult::new and the two `match`es on the options.
ParseArgsOk ==
    /\ pc = "args"
    /\ IsOk(Word_from_str(wordArg))
    /\ chosen_word' = Word_from_str(wordArg)[2]
    /\ possible_words' = <<>>
    /\ excluded' = IF exclArg = None THEN <<>> ELSE Excluded_from_str(exclArg[2])
    /\ included' = IF inclArg = None THEN <<>> ELSE Included_from_str(inclArg[2])
    /\ pc' = "filter"
    /\ UNCHANGED <<wordArg, exclArg, inclArg, file, argError, lineNo, target,
                   target_word, idx, ret, panic, output>>

ParseArgsErr ==
    /\ pc = "args"
    /\ ~IsOk(Word_from_str(wordArg))
    /\ argError' = Word_from_str(wordArg)[2]
    /\ pc' = "arg_error"
    /\ UNCHANGED <<wordArg, exclArg, inclArg, file, chosen_word, possible_words,
                   excluded, included, lineNo, target, target_word, idx, ret,
                   panic, output>>

\* the lines still to come; none when read_lines failed
HasNextLine == IsOk(file) /\ lineNo < Len(file[2])
NextLine == file[2][lineNo + 1]

\* `if let Ok(word) = line` does not hold: the line is passed over
SkipIoErrorLine ==
    /\ pc = "filter"
    /\ HasNextLine
    /\ ~IsOk(NextLine)
    /\ lineNo' = lineNo + 1
    /\ UNCHANGED <<wordArg, exclArg, inclArg, file, pc, argError, chosen_word,
                   possible_words, excluded, included, target, target_word,
                   idx, ret, panic, output>>

\* result.is_word_possible(&word, ..): target.parse().unwrap() succeeds and
\* the zip loop starts
CallParsed ==
    /\ pc = "filter"
    /\ HasNextLine
    /\ IsOk(NextLine)
    /\ IsOk(Word_from_str(NextLine[2]))
    /\ lineNo' = lineNo + 1
    /\ target' = NextLine[2]
    /\ target_word' = Word_from_str(NextLine[2])[2]
    /\ idx' = 1
    /\ ret' = "none"
    /\ pc' = "scan"
    /\ UNCHANGED <<wordArg, exclArg, inclArg, file, argError, chosen_word,
                   possible_words, excluded, included, panic, output>>

\* result.is_word_possible(&word, ..): target.parse().unwrap() panics with the
\* WordError; nothing catches it, main ends
CallPanics ==
    /\ pc = "filter"
    /\ HasNextLine
    /\ IsOk(NextLine)
    /\ ~IsOk(Word_from_str(NextLine[2]))
    /\ lineNo' = lineNo + 1
    /\ target' = NextLine[2]
    /\ ret' = "none"
    /\ panic' = Word_from_str(NextLine[2])[2]
    /\ pc' = "panicked"
    /\ UNCHANGED <<wordArg, exclArg, inclArg, file, argError, chosen_word,
                   possible_words, excluded, included, target_word, idx,
                   output>>

InLoop == pc = "scan" /\ idx <= zip_len(chosen_word, target_word)
Verdict == compare(chosen_word[idx], target_word[idx], excluded, included)

\* one pair of the zip loop ends in `continue` or falls through every check
ScanContinue ==
    /\ InLoop
    /\ Verdict = "continue"
    /\ idx' = idx + 1
    /\ UNCHANGED <<wordArg, exclArg, inclArg, file, pc, argError, chosen_word,
                   possible_words, excluded, included, lineNo, target,
                   target_word, ret, panic, output>>

\* the included branch: push and return true
ScanAccept ==
    /\ InLoop
    /\ Verdict = "accept"
    /\ possible_words' = push(possible_words, target_word)
    /\ ret' = "true"
    /\ pc' = "filter"
    /\ UNCHANGED <<wordArg, exclArg, inclArg, file, argError, chosen_word,
                   excluded, included, lineNo, target, target_word, idx, panic,
                   output>>

\* the excluded branch or the mismatch branch: return false
ScanReject ==
    /\ InLoop
    /\ Verdict = "reject"
    /\ ret' = "false"
    /\ pc' = "filter"
    /\ UNCHANGED <<wordArg, exclArg, inclArg, file, argError, chosen_word,
                   possible_words, excluded, included, lineNo, target,
                   target_word, idx, panic, output>>

\* the zip iterator is exhausted: push and return true
ScanEnd ==
    /\ pc = "scan"
    /\ idx > zip_len(chosen_word, target_word)
    /\ possible_words' = push(possible_words, target_word)
    /\ ret' = "true"
    /\ pc' = "filter"
    /\ UNCHANGED <<wordArg, exclArg, inclArg, file, argError, chosen_word,
                   excluded, included, lineNo, target, target_word, idx, panic,
                   output>>

\* the loop over the lines is over (or read_lines failed): println!("{}", result)
Render ==
    /\ pc = "filter"
    /\ ~HasNextLine
    /\ output' = fmt(possible_words)
    /\ pc' = "done"
    /\ UNCHANGED <<wordArg, exclArg, inclArg, file, argError, chosen_word,
                   possible_words, excluded, included, lineNo, target,
                   target_word, idx, ret, panic>>

Next ==
    \/ ParseArgsOk
    \/ ParseArgsErr
    \/ SkipIoErrorLine
    \/ CallParsed
    \/ CallPanics
    \/ ScanContinue
    \/ ScanAccept
    \/ ScanReject
    \/ ScanEnd
    \/ Render

----------------------------------------------------------------------------
(* Inputs *)

\* every sequence over S of length at most n
SeqsUpTo(S, n) == UNION {[1..k -> S] : k \in 0..n}

\* the state before main runs, for given arguments and a given words.txt
InitWith(words, excls, incls, files) ==
    /\ wordArg \in words
    /\ exclArg \in excls
    /\ inclArg \in incls
    /\ file \in files
    /\ pc = "args"
    /\ argError = <<>>
    /\ chosen_word = <<>>
    /\ possible_words = <<>>
    /\ excluded = <<>>
    /\ included = <<>>
    /\ lineNo = 0
    /\ target = <<>>
    /\ target_word = <<>>
    /\ idx = 0
    /\ ret = "none"
    /\ panic = <<>>
    /\ output = <<>>

\* Spec: a pass over a words.txt of up to MaxLines lines
Patterns ==
    { <<"a","a","r","g","h">>, <<"*","o","r","r","o">>, <<"*","*","*","*","*">>,
      <<"z","?","_","i","e">>, <<"é","a","*","h">>, <<"a","b","s","d">> }

Dictionary ==
    { <<"a","a","r","g","h">>, <<"z","o","w","i","e">>, <<"m","o","r","r","o">>,
      <<"l","i","g","h","t">>, <<"f","o","c","u","s">>,
      <<"é","a","r","h">>, <<"a","b","s","d","_","_">>, <<"a","b","-","d","e">> }

Init ==
    InitWith(Patterns,
             {None, Some(<<"w">>), Some(<<"m", "a">>)},
             {None, Some(<<"i">>)},
             {Err("io")} \cup
                {Ok(ls) : ls \in SeqsUpTo({Err("io")} \cup {Ok(l) : l \in Dictionary},
                                          MaxLines)})

Spec == Init /\ [][Next]_vars

\* SpecMatch: one call of is_word_possible, for every pattern over a, b and *,
\* every candidate over a and b, some candidates with wildcards, with a
\* non-ASCII letter and malformed ones, and small constraint sets
MatchPatterns ==
    [1..WordLen -> {"a", "b", "*"}]
        \cup { <<"é","a","*","b">>, <<"a","b","a","b">> }

MatchCandidates ==
    [1..WordLen -> {"a", "b"}]
        \cup { <<"*","a","b","a","b">>, <<"a","?","b","a","b">>,
               <<"b","b","_","a","a">>, <<"a","b","a","b","*">>,
               <<"é","a","b","a">>, <<"é","b","a","b">>,
               <<"a","b","a","b">>, <<"a","b","-","a","b">>,
               <<"a","b","a","b","a","b">> }

InitMatch ==
    InitWith(MatchPatterns,
             {Some(<<>>), Some(<<"a">>), Some(<<"b">>)},
             {Some(<<>>), Some(<<"a">>), Some(<<" ">>)},
             {Err("io"), Ok(<<Err("io")>>)} \cup
                {Ok(<<Ok(l)>>) : l \in MatchCandidates})

SpecMatch == InitMatch /\ [][Next]_vars

----------------------------------------------------------------------------
(* Vocabulary of the properties *)

\* the last call of is_word_possible has returned
Returned == ret # "none"

\* the compared positions: the pairs of the zip whose chosen slot is a letter
Compared == {i \in 1..zip_len(chosen_word, target_word) : IsNormal(chosen_word[i])}

\* the candidate has a letter at i and the included set holds it
CandidateLetterIncluded(i) ==
    IsNormal(target_word[i]) /\ contains(included, target_word[i][2])

\* the candidate has a letter at i and the excluded set holds it
CandidateLetterExcluded(i) ==
    IsNormal(target_word[i]) /\ contains(excluded, target_word[i][2])

\* position i passes the exclusion check and the equality check
PassesChecks(i) ==
    ~contains(excluded, chosen_word[i][2]) /\ chosen_word[i] = target_word[i]

\* both patterns of the call have the five slots the data model promises
FiveSlots == Len(chosen_word) = WordLen /\ Len(target_word) = WordLen

\* the candidate was appended at the end of the result list
Appended ==
    /\ Len(possible_words) > 0
    /\ possible_words[Len(possible_words)] = target_word

\* a text that is no five-slot pattern, and the error the parser owes for it
BadChars(s) == {k \in 1..Len(s) : ~(s[k] \in {"*", "_", "?"} \/ is_alphabetic(s[k]))}
Unparseable(s) == chars_count(s) # WordLen \/ BadChars(s) # {}
ErrorOwed(s) ==
    IF chars_count(s) # WordLen THEN InvalidWordLength(chars_count(s))
    ELSE InvalidCharValue(s[CHOOSE k \in BadChars(s) : \A m \in BadChars(s) : k <= m])

----------------------------------------------------------------------------
(* C1: parsing succeeds only for strings of exactly 5 characters, and fails *)
(* with InvalidWordLength(number of characters) for every other string; so  *)
(* the chosen pattern and every entry of the result list have 5 slots.      *)
C1_FiveSlots ==
    /\ pc \notin {"args", "arg_error"} =>
          chars_count(wordArg) = WordLen /\ Len(chosen_word) = WordLen
    /\ (pc = "arg_error" /\ chars_count(wordArg) # WordLen) =>
          argError = InvalidWordLength(chars_count(wordArg))
    /\ \A k \in 1..Len(possible_words) : Len(possible_words[k]) = WordLen

(* C2: with an empty included set and a five-slot candidate, the call       *)
(* returns true exactly when every letter slot of the chosen pattern holds  *)
(* a letter that is not excluded and equals the candidate's slot there;     *)
(* wildcard slots of the chosen pattern impose nothing.                     *)
C2_EmptyIncludedDecision ==
    (Returned /\ Len(included) = 0 /\ Len(target_word) = WordLen) =>
        (ret = "true" <=>
            \A i \in 1..Len(chosen_word) :
                IsNormal(chosen_word[i]) =>
                    /\ ~contains(excluded, chosen_word[i][2])
                    /\ target_word[i] = chosen_word[i])

\* accepted although the candidate has an excluded letter under a wildcard
C2_Witness ==
    /\ ret = "true" /\ Len(included) = 0 /\ Len(target_word) = WordLen
    /\ Compared # {}
    /\ \E i \in 1..Len(chosen_word) :
          ~IsNormal(chosen_word[i]) /\ CandidateLetterExcluded(i)

(* C3: a call that returns true appends exactly its parsed candidate at the *)
(* end of possible_words; every other step (a call returning false, a       *)
(* skipped line, a panic, the report) leaves possible_words as it was.      *)
C3_AppendOnly ==
    [][IF pc = "scan" /\ pc' = "filter" /\ ret' = "true"
       THEN possible_words' = Append(possible_words, Word_from_str(target)[2])
       ELSE pc # "args" => possible_words' = possible_words]_vars

\* the same candidate accepted twice is listed twice
C3_Witness ==
    /\ Len(possible_words) = 2
    /\ possible_words[1] = possible_words[2]
    /\ possible_words[2] = Word_from_str(target)[2]
    /\ ret = "true"

(* C4: with the chosen pattern "*****", an empty excluded set and a         *)
(* non-empty included set, a five-letter candidate is accepted exactly      *)
(* when it holds an included letter.                                        *)
C4_AllWildcardsNeedIncluded ==
    (/\ Returned
     /\ chosen_word = [k \in 1..WordLen |-> Wildcard]
     /\ Len(target_word) = WordLen
     /\ Len(excluded) = 0
     /\ Len(included) > 0)
        => (ret = "true" <=> \E i \in 1..Len(target_word) : CandidateLetterIncluded(i))

C6_ParseErrorPropagates ==
    [][(/\ pc = "filter" /\ Len(chosen_word) = WordLen
        /\ HasNextLine /\ IsOk(NextLine) /\ Unparseable(NextLine[2]))
          => /\ pc' = "panicked"
             /\ panic' = ErrorOwed(NextLine[2])
             /\ ret' = "none"
             /\ possible_words' = possible_words]_vars

(* C7, as claimed (on five-slot patterns): if the candidate's letter at any *)
(* compared position is in the included set, the call returns true and      *)
(* appends the candidate.                                                   *)
C7_Original ==
    (Returned /\ FiveSlots /\ \E i \in Compared : CandidateLetterIncluded(i))
        => (ret = "true" /\ Appended)

(* C7, amended: if the candidate's letter at a compared position is in the  *)
(* included set and every earlier compared position passes the exclusion    *)
(* and equality checks, the call returns true and appends the candidate,    *)
(* whatever the chosen letter at that position is.                          *)
C7_IncludedOverridesWhenReached ==
    (Returned /\ \E i \in Compared :
                    /\ CandidateLetterIncluded(i)
                    /\ \A j \in Compared : j < i => PassesChecks(j))
        => (ret = "true" /\ Appended)

\* the override fired after an earlier compared position, on an excluded
\* chosen letter
C7_Witness ==
    /\ ret = "true" /\ Appended
    /\ idx \in Compared
    /\ CandidateLetterIncluded(idx)
    /\ contains(excluded, chosen_word[idx][2])
    /\ \E j \in Compared : j < idx /\ PassesChecks(j)

(* C8: when the scan is at a compared position and the candidate's letter   *)
(* there is in the included set, the call returns true and appends the      *)
(* candidate at once, whether or not the chosen letter is excluded or       *)
(* differs, and the scan goes no further.                                   *)
C8_InclusionRunsFirst ==
    [][(InLoop /\ IsNormal(chosen_word[idx]) /\ CandidateLetterIncluded(idx))
          => /\ ret' = "true"
             /\ possible_words' = Append(possible_words, target_word)
             /\ pc' = "filter"
             /\ idx' = idx]_vars

\* the override fired before the last pair, on a chosen letter that is
\* excluded and differs from the candidate's
C8_Witness ==
    /\ pc = "filter" /\ ret = "true"
    /\ idx \in Compared
    /\ idx < zip_len(chosen_word, target_word)
    /\ CandidateLetterIncluded(idx)
    /\ contains(excluded, chosen_word[idx][2])
    /\ chosen_word[idx] # target_word[idx]
    /\ possible_words = <<target_word>>

(* C9: when the scan of two five-slot patterns is at a compared position    *)
(* where the candidate has a wildcard, the call returns false and appends   *)
(* nothing, whatever the parsed constraint sets are.                        *)
C9_CandidateWildcardRejects ==
    [][(InLoop /\ FiveSlots /\ IsNormal(chosen_word[idx]) /\ target_word[idx] = Wildcard)
          => /\ ret' = "false"
             /\ pc' = "filter"
             /\ possible_words' = possible_words]_vars

(* C10: in the filtering pass (for a five-slot chosen pattern) a line that  *)
(* does not parse is skipped: the pass goes on with the next line and       *)
(* possible_words is unchanged.                                             *)
C10_BadLineSkipped ==
    [][(pc = "filter" /\ Len(chosen_word) = WordLen /\ HasNextLine /\ IsOk(NextLine)
            /\ ~IsOk(Word_from_str(NextLine[2])))
          => /\ pc' = "filter"
             /\ lineNo' = lineNo + 1
             /\ possible_words' = possible_words]_vars

====
